---------------------------- MODULE Spec2Model ----------------------------
(***************************************************************************)
(* State-machine model of the two contracts of smart-contract-service:     *)
(*   BlockchainNodeRegistry.sol  (node records, owner index, chain counts) *)
(*   TwistToken.sol              (capped ERC20 with linear vesting)        *)
(* and of the Auth middleware of api-gateway (middleware/auth.go), which   *)
(* guards the protected routes of the gateway.                             *)
(* Every external function is one action.  A call that reverts leaves the  *)
(* contract storage untouched and only records the revert reason in the    *)
(* observation variable (regLast / tokLast).  Arithmetic is Solidity 0.8   *)
(* checked arithmetic: an underflow reverts with a panic.  Token amounts    *)
(* stay far below 2^256 within the bounds, so no addition or product of    *)
(* the token overflows; an overflow would revert and change nothing.       *)
(***************************************************************************)
EXTENDS Integers, Sequences, FiniteSets, TLC

\* ------------------------------------------------------------------ bounds
\* Logical time (block.timestamp) of the registry runs over 0..MaxTime.
MaxTime == 1
\* At most MaxNodes registrations are explored.
MaxNodes == 2
\* MAX_SUPPLY (100_000_000 * 10**18 in the contract) in model units.
MAX_SUPPLY == 2
\* The vesting window (730 days in the contract) in model ticks.
VestingPeriod == 2
\* Grants are explored while totalVested stays within MaxTotalVested.
MaxTotalVested == 3
\* type(uint256).max (2^256 - 1 in the contract) in model units: the block
\* counters of a node and the products computed from them are uint256.
UintMax == 1023

\* ------------------------------------------------------- common vocabulary
\* address(0), which is never msg.sender.
NullAddress == 0
\* The externally owned accounts that send transactions.
Addresses == {1, 2}

VARIABLES
    now,                \* block.timestamp
    nodes,              \* mapping(bytes32 => Node)
    nodeIds,            \* bytes32[]
    ownerNodes,         \* mapping(address => bytes32[])
    nodeCountByChain,   \* mapping(ChainType => uint256)
    regLast,            \* outcome of the last registry transaction
    roles,              \* AccessControl: the (role, account) pairs granted
    paused,             \* Pausable._paused
    totalSupply,        \* ERC20._totalSupply
    balances,           \* ERC20._balances
    vestingStartTime,
    vestingEndTime,
    totalVested,
    vestedAmount,       \* mapping(address => uint256)
    claimedAmount,      \* mapping(address => uint256)
    tokLast,            \* outcome of the last token transaction
    authLast            \* outcome of the last request to a protected route

regState == <<nodes, nodeIds, ownerNodes, nodeCountByChain>>
regVars == <<nodes, nodeIds, ownerNodes, nodeCountByChain, regLast>>
tokState == <<roles, paused, totalSupply, balances, vestingStartTime, vestingEndTime,
              totalVested, vestedAmount, claimedAmount>>
tokVars == <<roles, paused, totalSupply, balances, vestingStartTime, vestingEndTime,
             totalVested, vestedAmount, claimedAmount, tokLast>>
gwVars == <<authLast>>
vars == <<now, nodes, nodeIds, ownerNodes, nodeCountByChain, regLast,
          roles, paused, totalSupply, balances, vestingStartTime, vestingEndTime,
          totalVested, vestedAmount, claimedAmount, tokLast, authLast>>

\* ---------------------------------------------------------------- registry
\* enum NodeStatus; its first member is the default of an empty storage slot.
NodeStatus == {"Running", "Stopped", "Starting", "Syncing", "Error", "Maintenance"}
\* enum ChainType
ChainType == {"Ethereum", "Polygon", "Arbitrum", "BSC", "Custom"}
\* enum CloudProvider
CloudProvider == {"AWS", "GCP", "Azure", "DigitalOcean", "OnPremise"}

\* Inputs of the explored calls.
Names == {"N1", "N2"}
\* The registerNode requests: (_name, _chainType, _endpointUrl, _version, _region,
\* _provider).
RegisterInputs ==
    { [name |-> "N1", chainType |-> "Ethereum",
       endpointUrl |-> "https://eth.example.com", version |-> "v1",
       region |-> "us-east-1", provider |-> "AWS"],
      [name |-> "N2", chainType |-> "Polygon",
       endpointUrl |-> "https://polygon.example.com", version |-> "v2",
       region |-> "eu-west-1", provider |-> "GCP"] }
\* The updateNodeStatus reports: (_status, _currentBlock, _highestBlock).  The
\* second keeps the status of a fresh node and regresses the first's counter.
UpdateInputs == { <<"Running", 2, 1>>, <<"Starting", 1, 2>> }

NameCode(n) == CASE n = "N1" -> 0 [] n = "N2" -> 1

\* A digest that leaves block.timestamp out of the packed encoding.
keccak256_IgnoresTimestamp(sender, name, timestamp) ==
    1 + (sender - 1) + Cardinality(Addresses) * NameCode(name)

\* keccak256(abi.encodePacked(msg.sender, _name, block.timestamp)).  The packed
\* encoding (20 bytes, the name, 32 bytes) is injective and the digest is taken
\* to be collision free and never the all-zero word: identifiers are numbered
\* 1, 2, ... one per (sender, name, timestamp).
keccak256(sender, name, timestamp) ==
    1 + (sender - 1)
      + Cardinality(Addresses) * (NameCode(name) + Cardinality(Names) * timestamp)

\* bytes32(0)
ZeroId == 0
\* The identifiers a transaction may name: bytes32(0) and every digest.
NodeIdSpace == 0 .. (Cardinality(Addresses) * Cardinality(Names) * (MaxTime + 1) + 1)
\* A digest no explored registration produces.
UnknownId == Cardinality(Addresses) * Cardinality(Names) * (MaxTime + 1) + 1

\* The value every unwritten slot of `nodes` reads as.
EmptyNode ==
    [id |-> ZeroId, name |-> "", chainType |-> "Ethereum", endpointUrl |-> "",
     status |-> "Running", version |-> "", currentBlock |-> 0, highestBlock |-> 0,
     registeredAt |-> 0, updatedAt |-> 0, region |-> "", provider |-> "AWS",
     owner |-> NullAddress, isActive |-> FALSE]

\* modifier nodeExists
nodeExists(nodeId) == nodes[nodeId].id = nodeId

\* An ownership check that accepts every sender.
onlyNodeOwner_AnySender(nodeId, sender) == nodes[nodeId].id = nodeId

\* modifier onlyNodeOwner
onlyNodeOwner(nodeId, sender) == nodes[nodeId].owner = sender

RegObservation(op, sender, nodeId, err, events) ==
    [op |-> op, sender |-> sender, id |-> nodeId, err |-> err, events |-> events]

RegRevert(op, sender, nodeId, reason) ==
    /\ regLast' = RegObservation(op, sender, nodeId, reason, <<>>)
    /\ UNCHANGED regState

\* The spec's error kind of a revert reason ("" is success).
ErrorKind(reason) ==
    CASE reason = "" -> "Ok"
      [] reason = "Node already exists" -> "DuplicateIdentifier"
      [] reason = "Not the node owner" -> "Unauthorized"
      [] reason = "Node does not exist" -> "NotFound"
      [] reason = "AccessControl: account is missing role" -> "Unauthorized"
      [] reason = "Invalid address" -> "InvalidBeneficiary"
      [] reason = "Amount must be greater than 0" -> "InvalidAmount"
      [] reason = "Exceeds max supply" -> "ExceedsMaxSupply"
      [] reason \in {"No vested tokens", "All tokens claimed", "No tokens to claim"}
            -> "NothingToClaim"
      [] OTHER -> reason

RegInit ==
    /\ nodes = [i \in NodeIdSpace |-> EmptyNode]
    /\ nodeIds = <<>>
    /\ ownerNodes = [a \in Addresses |-> <<>>]
    /\ nodeCountByChain = [c \in ChainType |-> 0]
    /\ regLast = RegObservation("constructor", NullAddress, ZeroId, "", <<>>)

\* A Node struct that leaves updatedAt at its default.
newNode_NoUpdatedAt(nodeId, sender, name, chainType, endpointUrl, version, region, provider, timestamp) ==
    [id |-> nodeId, name |-> name, chainType |-> chainType,
     endpointUrl |-> endpointUrl, status |-> "Starting", version |-> version,
     currentBlock |-> 0, highestBlock |-> 0, registeredAt |-> timestamp,
     updatedAt |-> 0, region |-> region, provider |-> provider, owner |-> sender,
     isActive |-> TRUE]

\* The Node struct registerNode builds for nodeId at block.timestamp = timestamp.
newNode(nodeId, sender, name, chainType, endpointUrl, version, region, provider, timestamp) ==
    [id |-> nodeId,
     name |-> name,
     chainType |-> chainType,
     endpointUrl |-> endpointUrl,
     status |-> "Starting",
     version |-> version,
     currentBlock |-> 0,
     highestBlock |-> 0,
     registeredAt |-> timestamp,
     updatedAt |-> timestamp,
     region |-> region,
     provider |-> provider,
     owner |-> sender,
     isActive |-> TRUE]

\* A counter update that counts the registration under every chain type.
incrementChainCount_EveryChain(chainType) ==
    [c \in ChainType |-> nodeCountByChain[c] + 1]

\* nodeCountByChain[_chainType]++
incrementChainCount(chainType) ==
    [nodeCountByChain EXCEPT ![chainType] = @ + 1]

registerNode(sender, name, chainType, endpointUrl, version, region, provider) ==
    LET nodeId == keccak256(sender, name, now)
    IN  /\ Len(nodeIds) < MaxNodes \/ nodes[nodeId].id = nodeId
        /\ IF nodes[nodeId].id = nodeId
           THEN RegRevert("registerNode", sender, nodeId, "Node already exists")
           ELSE /\ nodes' = [nodes EXCEPT ![nodeId] =
                                newNode(nodeId, sender, name, chainType, endpointUrl,
                                        version, region, provider, now)]
                /\ nodeIds' = Append(nodeIds, nodeId)
                /\ ownerNodes' = [ownerNodes EXCEPT ![sender] = Append(@, nodeId)]
                /\ nodeCountByChain' = incrementChainCount(chainType)
                /\ regLast' = RegObservation("registerNode", sender, nodeId, "",
                                             <<"NodeRegistered">>)
        /\ UNCHANGED <<now, tokVars, gwVars>>

\* An update that reports a status change on every call.
updateNodeStatus_AlwaysReportsChange(sender, nodeId, status, currentBlock, highestBlock) ==
    /\ IF ~onlyNodeOwner(nodeId, sender)
       THEN RegRevert("updateNodeStatus", sender, nodeId, "Not the node owner")
       ELSE IF ~nodeExists(nodeId)
       THEN RegRevert("updateNodeStatus", sender, nodeId, "Node does not exist")
       ELSE LET node == nodes[nodeId]
            IN  /\ nodes' = [nodes EXCEPT ![nodeId] =
                                [node EXCEPT !.status = status,
                                             !.currentBlock = currentBlock,
                                             !.highestBlock = highestBlock,
                                             !.updatedAt = now]]
                /\ regLast' = RegObservation("updateNodeStatus", sender, nodeId, "",
                                  <<"NodeStatusChanged", "NodeUpdated">>)
                /\ UNCHANGED <<nodeIds, ownerNodes, nodeCountByChain>>
    /\ UNCHANGED <<now, tokVars, gwVars>>

\* An update that also stamps the registration time of the record.
updateNodeStatus_StampsRegisteredAt(sender, nodeId, status, currentBlock, highestBlock) ==
    /\ IF ~onlyNodeOwner(nodeId, sender)
       THEN RegRevert("updateNodeStatus", sender, nodeId, "Not the node owner")
       ELSE IF ~nodeExists(nodeId)
       THEN RegRevert("updateNodeStatus", sender, nodeId, "Node does not exist")
       ELSE LET node == nodes[nodeId]
                changed == node.status # status
            IN  /\ nodes' = [nodes EXCEPT ![nodeId] =
                                [node EXCEPT !.status = IF changed THEN status ELSE @,
                                             !.currentBlock = currentBlock,
                                             !.highestBlock = highestBlock,
                                             !.registeredAt = now,
                                             !.updatedAt = now]]
                /\ regLast' = RegObservation("updateNodeStatus", sender, nodeId, "",
                                  IF changed
                                  THEN <<"NodeStatusChanged", "NodeUpdated">>
                                  ELSE <<"NodeUpdated">>)
                /\ UNCHANGED <<nodeIds, ownerNodes, nodeCountByChain>>
    /\ UNCHANGED <<now, tokVars, gwVars>>

\* An update that marks the record it writes as active.
updateNodeStatus_Reactivates(sender, nodeId, status, currentBlock, highestBlock) ==
    /\ IF ~onlyNodeOwner(nodeId, sender)
       THEN RegRevert("updateNodeStatus", sender, nodeId, "Not the node owner")
       ELSE IF ~nodeExists(nodeId)
       THEN RegRevert("updateNodeStatus", sender, nodeId, "Node does not exist")
       ELSE LET node == nodes[nodeId]
                changed == node.status # status
            IN  /\ nodes' = [nodes EXCEPT ![nodeId] =
                                [node EXCEPT !.status = IF changed THEN status ELSE @,
                                             !.currentBlock = currentBlock,
                                             !.highestBlock = highestBlock,
                                             !.updatedAt = now,
                                             !.isActive = TRUE]]
                /\ regLast' = RegObservation("updateNodeStatus", sender, nodeId, "",
                                  IF changed
                                  THEN <<"NodeStatusChanged", "NodeUpdated">>
                                  ELSE <<"NodeUpdated">>)
                /\ UNCHANGED <<nodeIds, ownerNodes, nodeCountByChain>>
    /\ UNCHANGED <<now, tokVars, gwVars>>

updateNodeStatus(sender, nodeId, status, currentBlock, highestBlock) ==
    /\ IF ~onlyNodeOwner(nodeId, sender)
       THEN RegRevert("updateNodeStatus", sender, nodeId, "Not the node owner")
       ELSE IF ~nodeExists(nodeId)
       THEN RegRevert("updateNodeStatus", sender, nodeId, "Node does not exist")
       ELSE LET node == nodes[nodeId]
                changed == node.status # status
            IN  /\ nodes' = [nodes EXCEPT ![nodeId] =
                                [node EXCEPT !.status = IF changed THEN status ELSE @,
                                             !.currentBlock = currentBlock,
                                             !.highestBlock = highestBlock,
                                             !.updatedAt = now]]
                /\ regLast' = RegObservation("updateNodeStatus", sender, nodeId, "",
                                  IF changed
                                  THEN <<"NodeStatusChanged", "NodeUpdated">>
                                  ELSE <<"NodeUpdated">>)
                /\ UNCHANGED <<nodeIds, ownerNodes, nodeCountByChain>>
    /\ UNCHANGED <<now, tokVars, gwVars>>

\* A deregistration that keeps the write of isActive when the decrement of
\* the counter fails.
deregisterNode_PartialWrite(sender, nodeId) ==
    /\ IF ~onlyNodeOwner(nodeId, sender)
       THEN RegRevert("deregisterNode", sender, nodeId, "Not the node owner")
       ELSE IF ~nodeExists(nodeId)
       THEN RegRevert("deregisterNode", sender, nodeId, "Node does not exist")
       ELSE LET node == nodes[nodeId]
            IN  IF nodeCountByChain[node.chainType] = 0
                THEN \* checked arithmetic: 0-- reverts with Panic(0x11)
                     /\ nodes' = [nodes EXCEPT ![nodeId].isActive = FALSE]
                     /\ regLast' = RegObservation("deregisterNode", sender, nodeId,
                                                  "Panic", <<>>)
                     /\ UNCHANGED <<nodeIds, ownerNodes, nodeCountByChain>>
                ELSE /\ nodes' = [nodes EXCEPT ![nodeId].isActive = FALSE]
                     /\ nodeCountByChain' =
                            [nodeCountByChain EXCEPT ![node.chainType] = @ - 1]
                     /\ regLast' = RegObservation("deregisterNode", sender, nodeId, "",
                                                  <<"NodeDeregistered">>)
                     /\ UNCHANGED <<nodeIds, ownerNodes>>
    /\ UNCHANGED <<now, tokVars, gwVars>>

\* A deregistration that deletes the record instead of marking it.
deregisterNode_Deletes(sender, nodeId) ==
    /\ IF ~onlyNodeOwner(nodeId, sender)
       THEN RegRevert("deregisterNode", sender, nodeId, "Not the node owner")
       ELSE IF ~nodeExists(nodeId)
       THEN RegRevert("deregisterNode", sender, nodeId, "Node does not exist")
       ELSE LET node == nodes[nodeId]
            IN  IF nodeCountByChain[node.chainType] = 0
                THEN \* checked arithmetic: 0-- reverts with Panic(0x11)
                     RegRevert("deregisterNode", sender, nodeId, "Panic")
                ELSE /\ nodes' = [nodes EXCEPT ![nodeId] = EmptyNode]
                     /\ nodeCountByChain' =
                            [nodeCountByChain EXCEPT ![node.chainType] = @ - 1]
                     /\ regLast' = RegObservation("deregisterNode", sender, nodeId, "",
                                                  <<"NodeDeregistered">>)
                     /\ UNCHANGED <<nodeIds, ownerNodes>>
    /\ UNCHANGED <<now, tokVars, gwVars>>

deregisterNode(sender, nodeId) ==
    /\ IF ~onlyNodeOwner(nodeId, sender)
       THEN RegRevert("deregisterNode", sender, nodeId, "Not the node owner")
       ELSE IF ~nodeExists(nodeId)
       THEN RegRevert("deregisterNode", sender, nodeId, "Node does not exist")
       ELSE LET node == nodes[nodeId]
            IN  IF nodeCountByChain[node.chainType] = 0
                THEN \* checked arithmetic: 0-- reverts with Panic(0x11)
                     RegRevert("deregisterNode", sender, nodeId, "Panic")
                ELSE /\ nodes' = [nodes EXCEPT ![nodeId].isActive = FALSE]
                     /\ nodeCountByChain' =
                            [nodeCountByChain EXCEPT ![node.chainType] = @ - 1]
                     /\ regLast' = RegObservation("deregisterNode", sender, nodeId, "",
                                                  <<"NodeDeregistered">>)
                     /\ UNCHANGED <<nodeIds, ownerNodes>>
    /\ UNCHANGED <<now, tokVars, gwVars>>

\* A count of the records that are still active.
getNodeCount_ActiveOnly == Cardinality({i \in 1 .. Len(nodeIds) : nodes[nodeIds[i]].isActive})

\* getNodeCount()
getNodeCount == Len(nodeIds)

\* A listing that leaves out the deregistered records.
getNodesByOwner_ActiveOnly(owner) == LET Active(nodeId) == nodes[nodeId].isActive IN SelectSeq(ownerNodes[owner], Active)

\* getNodesByOwner(owner)
getNodesByOwner(owner) == ownerNodes[owner]

\* What a view call gives back: a revert reason, or "" and the returned value.
ViewRevert(reason) == [err |-> reason]
ViewReturn(value) == [err |-> "", ret |-> value]

\* getNodeDetails(nodeId): guarded by nodeExists only; returns every field of
\* the stored record but id.
getNodeDetails(nodeId) ==
    IF ~nodeExists(nodeId)
    THEN ViewRevert("Node does not exist")
    ELSE LET node == nodes[nodeId]
         IN  ViewReturn([name |-> node.name, chainType |-> node.chainType,
                         endpointUrl |-> node.endpointUrl, status |-> node.status,
                         version |-> node.version, currentBlock |-> node.currentBlock,
                         highestBlock |-> node.highestBlock,
                         registeredAt |-> node.registeredAt,
                         updatedAt |-> node.updatedAt, region |-> node.region,
                         provider |-> node.provider, owner |-> node.owner,
                         isActive |-> node.isActive])

\* getNodeSyncPercentage(nodeId): guarded by nodeExists only.  The product
\* currentBlock * 100 is checked uint256 arithmetic: beyond UintMax the call
\* reverts with Panic(0x11).
getNodeSyncPercentage(nodeId) ==
    IF ~nodeExists(nodeId)
    THEN ViewRevert("Node does not exist")
    ELSE LET node == nodes[nodeId]
         IN  IF node.highestBlock = 0 \/ node.currentBlock > node.highestBlock
             THEN ViewReturn(100)
             ELSE IF node.currentBlock * 100 > UintMax
             THEN ViewRevert("Panic")
             ELSE ViewReturn((node.currentBlock * 100) \div node.highestBlock)

\* block.timestamp advances between transactions.
Tick ==
    /\ now < MaxTime
    /\ now' = now + 1
    /\ UNCHANGED <<regVars, tokVars, gwVars>>

Range(seq) == {seq[i] : i \in 1 .. Len(seq)}

\* The identifiers the explored calls name: every registered one, bytes32(0)
\* and one that was never registered.
NodeIdInputs == Range(nodeIds) \cup {ZeroId, UnknownId}

Register ==
    \E sender \in Addresses, r \in RegisterInputs :
        registerNode(sender, r.name, r.chainType, r.endpointUrl, r.version,
                     r.region, r.provider)

Update ==
    \E sender \in Addresses, nodeId \in NodeIdInputs, u \in UpdateInputs :
        updateNodeStatus(sender, nodeId, u[1], u[2], u[3])

Deregister ==
    \E sender \in Addresses, nodeId \in NodeIdInputs :
        deregisterNode(sender, nodeId)

\* ------------------------------------------------------------------- token
DEFAULT_ADMIN_ROLE == "DEFAULT_ADMIN_ROLE"
PAUSER_ROLE == "PAUSER_ROLE"
MINTER_ROLE == "MINTER_ROLE"

\* The account the contract is deployed with as _admin.
Admin == 1
\* The _initialSupply values the contract is deployed with.
InitialSupplyInputs == {0, 1}
\* The amounts the explored calls pass.
AmountInputs == 0 .. MAX_SUPPLY

\* A role check that is satisfied by holding any role at all.
hasRole_AnyRole(role, account) == \E r \in {DEFAULT_ADMIN_ROLE, PAUSER_ROLE, MINTER_ROLE} : <<r, account>> \in roles

\* AccessControl.hasRole
hasRole(role, account) == <<role, account>> \in roles

TokObservation(op, sender, account, amount, err) ==
    [op |-> op, sender |-> sender, account |-> account, amount |-> amount, err |-> err]

\* A reverted call leaves the storage as it was; all that is observed of it is
\* the caller and the revert reason (no event carries its arguments).
TokRevert(op, sender, reason) ==
    /\ tokLast' = TokObservation(op, sender, NullAddress, 0, reason)
    /\ UNCHANGED tokState

\* A deployment that grants the administrator role alone.
Deployment_AdminOnly(initialSupply, admin, timestamp) ==
    [roles |-> { <<DEFAULT_ADMIN_ROLE, admin>> },
     paused |-> FALSE,
     totalSupply |-> initialSupply,
     balances |-> [a \in Addresses |-> IF a = admin THEN initialSupply ELSE 0],
     vestingStartTime |-> timestamp,
     vestingEndTime |-> timestamp + VestingPeriod,
     totalVested |-> 0,
     vestedAmount |-> [a \in Addresses |-> 0],
     claimedAmount |-> [a \in Addresses |-> 0]]

\* What the body of constructor(_initialSupply, _admin), run at
\* block.timestamp = timestamp, writes to the storage.
Deployment(initialSupply, admin, timestamp) ==
    [roles |-> { <<DEFAULT_ADMIN_ROLE, admin>>, <<PAUSER_ROLE, admin>>,
                 <<MINTER_ROLE, admin>> },
     paused |-> FALSE,
     totalSupply |-> initialSupply,
     balances |-> [a \in Addresses |-> IF a = admin THEN initialSupply ELSE 0],
     vestingStartTime |-> timestamp,
     vestingEndTime |-> timestamp + VestingPeriod,
     totalVested |-> 0,
     vestedAmount |-> [a \in Addresses |-> 0],
     claimedAmount |-> [a \in Addresses |-> 0]]

\* The storage after constructor(_initialSupply, _admin) at block.timestamp = now.
constructor(initialSupply, admin) ==
    LET d == Deployment(initialSupply, admin, now)
    IN  /\ initialSupply <= MAX_SUPPLY
        /\ roles = d.roles
        /\ paused = d.paused
        /\ totalSupply = d.totalSupply
        /\ balances = d.balances
        /\ vestingStartTime = d.vestingStartTime
        /\ vestingEndTime = d.vestingEndTime
        /\ totalVested = d.totalVested
        /\ vestedAmount = d.vestedAmount
        /\ claimedAmount = d.claimedAmount
        /\ tokLast = TokObservation("constructor", admin, admin, initialSupply, "")

\* The token before its deployment: every storage slot reads as zero.
Undeployed ==
    /\ roles = {}
    /\ paused = FALSE
    /\ totalSupply = 0
    /\ balances = [a \in Addresses |-> 0]
    /\ vestingStartTime = 0
    /\ vestingEndTime = 0
    /\ totalVested = 0
    /\ vestedAmount = [a \in Addresses |-> 0]
    /\ claimedAmount = [a \in Addresses |-> 0]
    /\ tokLast = TokObservation("none", NullAddress, NullAddress, 0, "")

\* The deployment transaction: constructor(_initialSupply, _admin) runs once,
\* and a revert in it leaves no contract.  _mint rejects address(0) whatever
\* the amount.
deploy(initialSupply, admin) ==
    LET d == Deployment(initialSupply, admin, now)
    IN  /\ vestingEndTime = 0
        /\ IF ~(initialSupply <= MAX_SUPPLY)
           THEN TokRevert("constructor", admin, "Initial supply exceeds maximum")
           ELSE IF admin = NullAddress
           THEN TokRevert("constructor", admin, "ERC20: mint to the zero address")
           ELSE /\ roles' = d.roles
                /\ paused' = d.paused
                /\ totalSupply' = d.totalSupply
                /\ balances' = d.balances
                /\ vestingStartTime' = d.vestingStartTime
                /\ vestingEndTime' = d.vestingEndTime
                /\ totalVested' = d.totalVested
                /\ vestedAmount' = d.vestedAmount
                /\ claimedAmount' = d.claimedAmount
                /\ tokLast' = TokObservation("constructor", admin, admin,
                                             initialSupply, "")
        /\ UNCHANGED <<now, regVars, gwVars>>

\* addVesting's require on the supply cap.
addVestingWithinCap(amount) == totalSupply + amount <= MAX_SUPPLY

\* A grant that accepts a zero amount.
addVesting_NoAmountCheck(sender, beneficiary, amount) ==
    /\ IF ~hasRole(DEFAULT_ADMIN_ROLE, sender)
       THEN TokRevert("addVesting", sender,
                      "AccessControl: account is missing role")
       ELSE IF beneficiary = NullAddress
       THEN TokRevert("addVesting", sender, "Invalid address")
       ELSE IF ~addVestingWithinCap(amount)
       THEN TokRevert("addVesting", sender, "Exceeds max supply")
       ELSE /\ vestedAmount' = [vestedAmount EXCEPT ![beneficiary] = @ + amount]
            /\ totalVested' = totalVested + amount
            /\ tokLast' = TokObservation("addVesting", sender, beneficiary, amount, "")
            /\ UNCHANGED <<roles, paused, totalSupply, balances, vestingStartTime,
                           vestingEndTime, claimedAmount>>
    /\ UNCHANGED <<now, regVars, gwVars>>

\* A grant that overwrites the vested total of the beneficiary.
addVesting_Overwrites(sender, beneficiary, amount) ==
    /\ IF ~hasRole(DEFAULT_ADMIN_ROLE, sender)
       THEN TokRevert("addVesting", sender,
                      "AccessControl: account is missing role")
       ELSE IF beneficiary = NullAddress
       THEN TokRevert("addVesting", sender, "Invalid address")
       ELSE IF ~(amount > 0)
       THEN TokRevert("addVesting", sender,
                      "Amount must be greater than 0")
       ELSE IF ~addVestingWithinCap(amount)
       THEN TokRevert("addVesting", sender, "Exceeds max supply")
       ELSE /\ vestedAmount' = [vestedAmount EXCEPT ![beneficiary] = amount]
            /\ totalVested' = totalVested + amount
            /\ tokLast' = TokObservation("addVesting", sender, beneficiary, amount, "")
            /\ UNCHANGED <<roles, paused, totalSupply, balances, vestingStartTime,
                           vestingEndTime, claimedAmount>>
    /\ UNCHANGED <<now, regVars, gwVars>>

\* addVesting(_beneficiary, _amount)
addVesting(sender, beneficiary, amount) ==
    /\ IF ~hasRole(DEFAULT_ADMIN_ROLE, sender)
       THEN TokRevert("addVesting", sender,
                      "AccessControl: account is missing role")
       ELSE IF beneficiary = NullAddress
       THEN TokRevert("addVesting", sender, "Invalid address")
       ELSE IF ~(amount > 0)
       THEN TokRevert("addVesting", sender,
                      "Amount must be greater than 0")
       ELSE IF ~addVestingWithinCap(amount)
       THEN TokRevert("addVesting", sender, "Exceeds max supply")
       ELSE /\ vestedAmount' = [vestedAmount EXCEPT ![beneficiary] = @ + amount]
            /\ totalVested' = totalVested + amount
            /\ tokLast' = TokObservation("addVesting", sender, beneficiary, amount, "")
            /\ UNCHANGED <<roles, paused, totalSupply, balances, vestingStartTime,
                           vestingEndTime, claimedAmount>>
    /\ UNCHANGED <<now, regVars, gwVars>>

\* (vestedTotal * elapsed) / totalPeriod of claimVestedTokens and getClaimableAmount.
vestedSoFar(vestedTotal, timestamp) ==
    (vestedTotal * (timestamp - vestingStartTime))
        \div (vestingEndTime - vestingStartTime)

\* A claimable amount that keeps growing linearly after the window has ended.
getClaimableAmount_NoEndBranch(beneficiary, timestamp) ==
    LET vestedTotal == vestedAmount[beneficiary]
        claimed == claimedAmount[beneficiary]
    IN  IF vestedTotal = 0 \/ claimed >= vestedTotal THEN 0
        ELSE IF vestedSoFar(vestedTotal, timestamp) > claimed
             THEN vestedSoFar(vestedTotal, timestamp) - claimed
             ELSE 0

\* getClaimableAmount(_beneficiary) at block.timestamp = timestamp.
getClaimableAmount(beneficiary, timestamp) ==
    LET vestedTotal == vestedAmount[beneficiary]
        claimed == claimedAmount[beneficiary]
    IN  IF vestedTotal = 0 \/ claimed >= vestedTotal THEN 0
        ELSE IF timestamp >= vestingEndTime THEN vestedTotal - claimed
        ELSE IF vestedSoFar(vestedTotal, timestamp) > claimed
             THEN vestedSoFar(vestedTotal, timestamp) - claimed
             ELSE 0

\* A claim computation that releases the whole grant once the window has ended,
\* whatever was claimed before.
claimableOf_IgnoresClaimed(beneficiary) ==
    LET vestedTotal == vestedAmount[beneficiary]
        claimed == claimedAmount[beneficiary]
    IN  IF now >= vestingEndTime THEN vestedTotal
        ELSE IF vestedSoFar(vestedTotal, now) < claimed THEN -1
        ELSE vestedSoFar(vestedTotal, now) - claimed

\* A claim computation that reads a stale claimed total of zero: it does not see
\* what earlier claims of the beneficiary have released.
claimableOf_StaleClaimed(beneficiary) ==
    IF now >= vestingEndTime THEN vestedAmount[beneficiary]
    ELSE vestedSoFar(vestedAmount[beneficiary], now)

\* A claim computation that keeps the linear schedule running after the window
\* has ended.
claimableOf_NoEndBranch(beneficiary) ==
    LET vestedTotal == vestedAmount[beneficiary]
        claimed == claimedAmount[beneficiary]
    IN  IF vestedSoFar(vestedTotal, now) < claimed THEN -1
        ELSE vestedSoFar(vestedTotal, now) - claimed

\* A claim computation that applies the elapsed share of the window to what is
\* left of the grant, so that the total released depends on earlier claims.
claimableOf_OfRemainder(beneficiary) ==
    LET vestedTotal == vestedAmount[beneficiary]
        claimed == claimedAmount[beneficiary]
    IN  IF now >= vestingEndTime THEN vestedTotal - claimed
        ELSE vestedSoFar(vestedTotal - claimed, now)


\* A claim computation that forgets the schedule: everything not yet claimed is
\* claimable at once.
claimableOf_WholeGrant(beneficiary) ==
    vestedAmount[beneficiary] - claimedAmount[beneficiary]

\* The amount claimVestedTokens computes for msg.sender, or -1 where the checked
\* subtraction vestedSoFar - claimed underflows (the call panics).
claimableOf(beneficiary) ==
    LET vestedTotal == vestedAmount[beneficiary]
        claimed == claimedAmount[beneficiary]
    IN  IF now >= vestingEndTime THEN vestedTotal - claimed
        ELSE IF vestedSoFar(vestedTotal, now) < claimed THEN -1
        ELSE vestedSoFar(vestedTotal, now) - claimed

\* A claim that is also held to the supply cap, as mint is.
claimRevertReason_ChecksCap(sender) ==
    LET beneficiary == sender
        vestedTotal == vestedAmount[beneficiary]
        claimed == claimedAmount[beneficiary]
        claimable == claimableOf(beneficiary)
    IN  IF paused THEN "Pausable: paused"
        ELSE IF ~(vestedTotal > 0) THEN "No vested tokens"
        ELSE IF ~(claimed < vestedTotal) THEN "All tokens claimed"
        ELSE IF claimable < 0 THEN "Panic"
        ELSE IF ~(claimable > 0) THEN "No tokens to claim"
        ELSE IF ~(totalSupply + claimable <= MAX_SUPPLY) THEN "Exceeds max supply"
        ELSE ""


\* The require (or modifier, or checked subtraction) of claimVestedTokens that
\* stops a call of sender in the current state, "" when none does.
claimRevertReason(sender) ==
    LET beneficiary == sender
        vestedTotal == vestedAmount[beneficiary]
        claimed == claimedAmount[beneficiary]
        claimable == claimableOf(beneficiary)
    IN  IF paused THEN "Pausable: paused"
        ELSE IF ~(vestedTotal > 0) THEN "No vested tokens"
        ELSE IF ~(claimed < vestedTotal) THEN "All tokens claimed"
        ELSE IF claimable < 0 THEN "Panic"
        ELSE IF ~(claimable > 0) THEN "No tokens to claim"
        ELSE ""

claimVestedTokens(sender) ==
    LET beneficiary == sender
        claimable == claimableOf(beneficiary)
    IN  /\ IF claimRevertReason(sender) # ""
           THEN TokRevert("claimVestedTokens", sender, claimRevertReason(sender))
           ELSE /\ claimedAmount' = [claimedAmount EXCEPT ![beneficiary] = @ + claimable]
                \* _mint(beneficiary, claimable)
                /\ totalSupply' = totalSupply + claimable
                /\ balances' = [balances EXCEPT ![beneficiary] = @ + claimable]
                /\ tokLast' = TokObservation("claimVestedTokens", sender, beneficiary,
                                             claimable, "")
                /\ UNCHANGED <<roles, paused, vestingStartTime, vestingEndTime,
                               totalVested, vestedAmount>>
        /\ UNCHANGED <<now, regVars, gwVars>>

\* A grant that rejects a role the account already holds.
grantRole_RejectsHeld(sender, role, account) ==
    /\ IF ~hasRole(DEFAULT_ADMIN_ROLE, sender)
       THEN TokRevert("grantRole", sender,
                      "AccessControl: account is missing role")
       ELSE IF hasRole(role, account)
       THEN TokRevert("grantRole", sender, "AccessControl: role already granted")
       ELSE /\ roles' = roles \cup { <<role, account>> }
            /\ tokLast' = TokObservation("grantRole", sender, account, 0, "")
            /\ UNCHANGED <<paused, totalSupply, balances, vestingStartTime,
                           vestingEndTime, totalVested, vestedAmount, claimedAmount>>
    /\ UNCHANGED <<now, regVars, gwVars>>

\* AccessControl.grantRole(role, account): the admin role of every role is
\* DEFAULT_ADMIN_ROLE; granting a role already held changes nothing.
grantRole(sender, role, account) ==
    /\ IF ~hasRole(DEFAULT_ADMIN_ROLE, sender)
       THEN TokRevert("grantRole", sender,
                      "AccessControl: account is missing role")
       ELSE /\ roles' = roles \cup { <<role, account>> }
            /\ tokLast' = TokObservation("grantRole", sender, account, 0, "")
            /\ UNCHANGED <<paused, totalSupply, balances, vestingStartTime,
                           vestingEndTime, totalVested, vestedAmount, claimedAmount>>
    /\ UNCHANGED <<now, regVars, gwVars>>

\* A revoke that refuses to take the administrator role from its last holder.
revokeRole_KeepsLastAdmin(sender, role, account) ==
    /\ IF ~hasRole(DEFAULT_ADMIN_ROLE, sender)
       THEN TokRevert("revokeRole", sender,
                      "AccessControl: account is missing role")
       ELSE IF role = DEFAULT_ADMIN_ROLE /\ \A r \in roles : r[1] = role => r[2] = account
       THEN TokRevert("revokeRole", sender, "AccessControl: last administrator")
       ELSE /\ roles' = roles \ { <<role, account>> }
            /\ tokLast' = TokObservation("revokeRole", sender, account, 0, "")
            /\ UNCHANGED <<paused, totalSupply, balances, vestingStartTime,
                           vestingEndTime, totalVested, vestedAmount, claimedAmount>>
    /\ UNCHANGED <<now, regVars, gwVars>>

\* AccessControl.revokeRole(role, account)
revokeRole(sender, role, account) ==
    /\ IF ~hasRole(DEFAULT_ADMIN_ROLE, sender)
       THEN TokRevert("revokeRole", sender,
                      "AccessControl: account is missing role")
       ELSE /\ roles' = roles \ { <<role, account>> }
            /\ tokLast' = TokObservation("revokeRole", sender, account, 0, "")
            /\ UNCHANGED <<paused, totalSupply, balances, vestingStartTime,
                           vestingEndTime, totalVested, vestedAmount, claimedAmount>>
    /\ UNCHANGED <<now, regVars, gwVars>>

\* A cap check that is off by one: minting up to the cap itself is refused.
mintWithinCap_StrictlyBelow(amount) == totalSupply + amount < MAX_SUPPLY

\* mint's require on the supply cap.
mintWithinCap(amount) == totalSupply + amount <= MAX_SUPPLY

mint(sender, to, amount) ==
    /\ IF ~hasRole(MINTER_ROLE, sender)
       THEN TokRevert("mint", sender,
                      "AccessControl: account is missing role")
       ELSE IF ~mintWithinCap(amount)
       THEN TokRevert("mint", sender, "Exceeds max supply")
       ELSE IF to = NullAddress
       THEN TokRevert("mint", sender, "ERC20: mint to the zero address")
       ELSE IF paused
       THEN TokRevert("mint", sender, "Pausable: paused")
       ELSE /\ totalSupply' = totalSupply + amount
            /\ balances' = [balances EXCEPT ![to] = @ + amount]
            /\ tokLast' = TokObservation("mint", sender, to, amount, "")
            /\ UNCHANGED <<roles, paused, vestingStartTime, vestingEndTime,
                           totalVested, vestedAmount, claimedAmount>>
    /\ UNCHANGED <<now, regVars, gwVars>>

\* ERC20Burnable.burn(amount)
burn(sender, amount) ==
    /\ IF paused
       THEN TokRevert("burn", sender, "Pausable: paused")
       ELSE IF balances[sender] < amount
       THEN TokRevert("burn", sender,
                      "ERC20: burn amount exceeds balance")
       ELSE /\ balances' = [balances EXCEPT ![sender] = @ - amount]
            /\ totalSupply' = totalSupply - amount
            /\ tokLast' = TokObservation("burn", sender, sender, amount, "")
            /\ UNCHANGED <<roles, paused, vestingStartTime, vestingEndTime,
                           totalVested, vestedAmount, claimedAmount>>
    /\ UNCHANGED <<now, regVars, gwVars>>

\* A transfer that the pause does not stop.
transfer_IgnoresPause(sender, to, amount) ==
    /\ IF to = NullAddress
       THEN TokRevert("transfer", sender, "ERC20: transfer to the zero address")
       ELSE IF balances[sender] < amount
       THEN TokRevert("transfer", sender,
                      "ERC20: transfer amount exceeds balance")
       ELSE /\ balances' = [balances EXCEPT ![sender] = @ - amount, ![to] = @ + amount]
            /\ tokLast' = TokObservation("transfer", sender, to, amount, "")
            /\ UNCHANGED <<roles, paused, totalSupply, vestingStartTime,
                           vestingEndTime, totalVested, vestedAmount, claimedAmount>>
    /\ UNCHANGED <<now, regVars, gwVars>>

\* ERC20.transfer(to, amount)
transfer(sender, to, amount) ==
    /\ IF to = NullAddress
       THEN TokRevert("transfer", sender, "ERC20: transfer to the zero address")
       ELSE IF paused
       THEN TokRevert("transfer", sender, "Pausable: paused")
       ELSE IF balances[sender] < amount
       THEN TokRevert("transfer", sender,
                      "ERC20: transfer amount exceeds balance")
       ELSE /\ balances' = [balances EXCEPT ![sender] = @ - amount, ![to] = @ + amount]
            /\ tokLast' = TokObservation("transfer", sender, to, amount, "")
            /\ UNCHANGED <<roles, paused, totalSupply, vestingStartTime,
                           vestingEndTime, totalVested, vestedAmount, claimedAmount>>
    /\ UNCHANGED <<now, regVars, gwVars>>

pause(sender) ==
    /\ IF ~hasRole(PAUSER_ROLE, sender)
       THEN TokRevert("pause", sender,
                      "AccessControl: account is missing role")
       ELSE IF paused
       THEN TokRevert("pause", sender, "Pausable: paused")
       ELSE /\ paused' = TRUE
            /\ tokLast' = TokObservation("pause", sender, sender, 0, "")
            /\ UNCHANGED <<roles, totalSupply, balances, vestingStartTime,
                           vestingEndTime, totalVested, vestedAmount, claimedAmount>>
    /\ UNCHANGED <<now, regVars, gwVars>>

unpause(sender) ==
    /\ IF ~hasRole(PAUSER_ROLE, sender)
       THEN TokRevert("unpause", sender,
                      "AccessControl: account is missing role")
       ELSE IF ~paused
       THEN TokRevert("unpause", sender, "Pausable: not paused")
       ELSE /\ paused' = FALSE
            /\ tokLast' = TokObservation("unpause", sender, sender, 0, "")
            /\ UNCHANGED <<roles, totalSupply, balances, vestingStartTime,
                           vestingEndTime, totalVested, vestedAmount, claimedAmount>>
    /\ UNCHANGED <<now, regVars, gwVars>>

\* block.timestamp advances between token transactions, to one tick past the
\* end of the vesting window.
TokenTick ==
    /\ now < vestingEndTime + 1
    /\ now' = now + 1
    /\ UNCHANGED <<regVars, tokVars, gwVars>>

AddVesting ==
    \E sender \in Addresses, beneficiary \in Addresses \cup {NullAddress},
       amount \in AmountInputs :
        /\ totalVested + amount <= MaxTotalVested
        /\ addVesting(sender, beneficiary, amount)

Claim == \E sender \in Addresses : claimVestedTokens(sender)

Mint ==
    \E sender \in Addresses, to \in Addresses \cup {NullAddress},
       amount \in AmountInputs :
        mint(sender, to, amount)

Burn == \E sender \in Addresses, amount \in AmountInputs : burn(sender, amount)

Transfer ==
    \E sender \in Addresses, to \in Addresses \cup {NullAddress},
       amount \in AmountInputs :
        transfer(sender, to, amount)

Pause == \E sender \in Addresses : pause(sender)

Unpause == \E sender \in Addresses : unpause(sender)

\* ---------------------------------------------------------------- gateway
\* http.StatusUnauthorized
StatusUnauthorized == 401
\* http.StatusInternalServerError, written by gin.Recovery() after a panic
StatusInternalServerError == 500

\* cfg.JWT.Secret
JWTSecret == "secret"

\* A nil *jwt.NumericDate; a pointer to the time t is <<t>>.
Nil == <<>>

\* JWTClaims: user_id, username, role and the registered claim exp.
JWTClaims(userID, username, role, expiresAt) ==
    [UserID |-> userID, Username |-> username, Role |-> role, ExpiresAt |-> expiresAt]

\* What a JWT parser makes of a word of a header.  A word that is no compact
\* JWS serialization is malformed; the others carry the algorithm of their
\* header, the key their signature verifies under and their claims.
MalformedToken ==
    [wellFormed |-> FALSE, alg |-> "", key |-> "", claims |-> JWTClaims("", "", "", Nil)]

SignedToken(alg, key, claims) ==
    [wellFormed |-> TRUE, alg |-> alg, key |-> key, claims |-> claims]

\* A header value is the sequence of its words, the maximal runs without a
\* space (two adjacent spaces enclose an empty word); "" has no word.
Word(text) == [text |-> text, jwt |-> MalformedToken]
TokenWord(jwt) == [text |-> "<jws>", jwt |-> jwt]

\* strings.Split(s, " "): the words of s; Split("") is the one-element list [""].
Split(s) == IF s = <<>> THEN <<Word("")>> ELSE s

\* c.GetHeader(key): the value of the header, "" when the request has none.
GetHeader(request, key) ==
    IF key \in DOMAIN request.headers THEN request.headers[key] ELSE <<>>

\* The UUID spellings the explored user_id claims use.
CanonicalUUID == "11111111-2222-3333-4444-555555555555"

UserIDInputs ==
    {CanonicalUUID, "urn:uuid:11111111-2222-3333-4444-555555555555",
     "not-a-uuid", ""}

\* uuid.Parse(s): the UUID of the canonical, urn:uuid:, braced and plain-hex
\* spellings, an error for every other string.  A UUID is written in its
\* canonical spelling.
uuidParse(s) ==
    IF s \in {CanonicalUUID, "urn:uuid:11111111-2222-3333-4444-555555555555",
              "{11111111-2222-3333-4444-555555555555}",
              "11111111222233334444555555555555"}
    THEN [err |-> "", uuid |-> CanonicalUUID]
    ELSE [err |-> "invalid UUID", uuid |-> ""]

\* jwt.ParseWithClaims(tokenString, &JWTClaims{}, keyFunc) at time timestamp,
\* keyFunc returning []byte(secret): the word must be a JWS, its algorithm one
\* that takes a []byte key (HMAC; "none" is refused), its signature valid
\* under the secret, and exp, when the claim is there, later than now.  A
\* token without exp passes: the default validator does not require it.
ParseWithClaims(tokenString, secret, timestamp) ==
    LET claims == tokenString.claims
    IN  IF ~tokenString.wellFormed THEN [err |-> "token is malformed"]
        ELSE IF tokenString.alg = "none"
        THEN [err |-> "token is unverifiable"]
        ELSE IF tokenString.alg # "HS256"
        THEN [err |-> "key is of invalid type"]
        ELSE IF tokenString.key # secret THEN [err |-> "signature is invalid"]
        ELSE IF claims.ExpiresAt # Nil /\ ~(timestamp < claims.ExpiresAt[1])
        THEN [err |-> "token is expired"]
        ELSE [err |-> "", claims |-> claims]

\* The outcome of a request to a protected route: the status and message the
\* middleware chain wrote (0 and "" when it wrote none), whether the next
\* handler was invoked, and the keys set in the gin context.
AuthObservation(request, status, body, next, keys) ==
    [op |-> "Auth", request |-> request, at |-> now, status |-> status,
     body |-> body, next |-> next, keys |-> keys]

\* c.AbortWithStatusJSON(code, models.NewErrorResponse(message)); return
AbortWithStatusJSON(request, code, message) ==
    AuthObservation(request, code, message, FALSE, {})

\* A panic in the handler chain is recovered by gin.Recovery(), which aborts
\* the request with status 500.
Recovery(request) ==
    AuthObservation(request, StatusInternalServerError, "", FALSE, {})

\* Before any request.
AuthInit ==
    authLast = [op |-> "none", request |-> [headers |-> <<>>], at |-> 0,
                status |-> 0, body |-> "", next |-> FALSE, keys |-> {}]

\* middleware.Auth(secret) on one request, under router.Use(gin.Recovery()).
\* The type assertion token.Claims.(*JWTClaims) always succeeds, the claims
\* having been parsed into a *JWTClaims, so its abort is not a branch here.
Auth(secret, request) ==
    LET authHeader == GetHeader(request, "Authorization")
        parts == Split(authHeader)
    IN  /\ authLast' =
              IF authHeader = <<>>
              THEN AbortWithStatusJSON(request, StatusUnauthorized,
                                       "Authorization header is required")
              ELSE IF Len(parts) # 2 \/ parts[1].text # "Bearer"
              THEN AbortWithStatusJSON(request, StatusUnauthorized,
                       "Invalid authorization format, Bearer token required")
              ELSE LET tokenString == parts[2].jwt
                       parsed == ParseWithClaims(tokenString, secret, now)
                   IN  IF parsed.err # ""
                       THEN AbortWithStatusJSON(request, StatusUnauthorized,
                                                "Invalid or expired token")
                       ELSE LET claims == parsed.claims
                            IN  IF claims.ExpiresAt = Nil
                                THEN \* claims.ExpiresAt.Time on a nil pointer panics
                                     Recovery(request)
                                ELSE IF claims.ExpiresAt[1] - now < 0
                                THEN AbortWithStatusJSON(request, StatusUnauthorized,
                                                         "Token expired")
                                ELSE LET userID == uuidParse(claims.UserID)
                                     IN  IF userID.err # ""
                                         THEN AbortWithStatusJSON(request,
                                                  StatusUnauthorized,
                                                  "Invalid user ID in token")
                                         ELSE \* c.Set x 3; c.Next()
                                              AuthObservation(request, 0, "", TRUE,
                                                  {<<"user_id", userID.uuid>>,
                                                   <<"username", claims.Username>>,
                                                   <<"role", claims.Role>>})
        /\ UNCHANGED <<now, regVars, tokVars>>

\* The tokens of the explored requests: one word that is no JWS, and the JWS
\* of every algorithm, signing key, user_id, role and exp explored.
TokenInputs ==
    {MalformedToken} \cup
    { SignedToken(alg, key, JWTClaims(userID, "alice", role, expiresAt)) :
        alg \in {"HS256", "none"}, key \in {JWTSecret, "other"},
        userID \in UserIDInputs, role \in {"admin", "user"},
        expiresAt \in {Nil} \cup {<<t>> : t \in 0 .. (MaxTime + 1)} }

\* The Authorization header values explored: empty, one word, Bearer and a
\* token, another scheme, a lower-case scheme, two spaces, and a third word.
HeaderInputs ==
    {<<>>, <<Word("Bearer")>>}
    \cup { <<Word("Bearer"), TokenWord(t)>> : t \in TokenInputs }
    \cup { <<Word(scheme), TokenWord(t)>> :
             scheme \in {"Basic", "bearer"},
             t \in {SignedToken("HS256", JWTSecret,
                        JWTClaims(CanonicalUUID, "alice", "user", <<MaxTime + 1>>))} }
    \cup { <<Word("Bearer"), Word(""), TokenWord(t)>> :
             t \in {SignedToken("HS256", JWTSecret,
                        JWTClaims(CanonicalUUID, "alice", "user", <<MaxTime + 1>>))} }
    \cup { <<Word("Bearer"), TokenWord(t), Word("x")>> :
             t \in {SignedToken("HS256", JWTSecret,
                        JWTClaims(CanonicalUUID, "alice", "user", <<MaxTime + 1>>))} }

RequestInputs ==
    {[headers |-> <<>>]} \cup {[headers |-> ("Authorization" :> h)] : h \in HeaderInputs}

\* A request to one of the protected routes of the gateway.
Serve == \E request \in RequestInputs : Auth(JWTSecret, request)

\* The gateway under every explored request, at every time.
AuthNext == Serve \/ Tick

\* The gateway before any request, beside the two contracts as deployed.
GatewayInit == now = 0 /\ RegInit /\ constructor(0, Admin) /\ AuthInit

AuthSpec == GatewayInit /\ [][AuthNext]_vars


\* The registry is explored beside a token deployed with no initial supply.
RegistryInit == now = 0 /\ RegInit /\ constructor(0, Admin) /\ AuthInit

RegistryNext == Register \/ Update \/ Deregister \/ Tick

RegistrySpec == RegistryInit /\ [][RegistryNext]_vars

\* The block counters the sync reports carry: zero, a small height, the
\* largest height whose hundredfold still fits uint256, the next one, and the
\* largest uint256.
BlockInputs == {0, 1, UintMax \div 100, UintMax \div 100 + 1, UintMax}

\* The registration of the one node whose sync progress is reported.
SyncRegister == Len(nodeIds) = 0 /\ Register

\* The owner of a node reports its block counters.
SyncReport ==
    \E nodeId \in Range(nodeIds), currentBlock \in BlockInputs, highestBlock \in BlockInputs :
        updateNodeStatus(nodes[nodeId].owner, nodeId, "Syncing", currentBlock, highestBlock)

\* The registry with one node, under every pair of reported block counters.
SyncNext == SyncRegister \/ SyncReport

SyncSpec == RegistryInit /\ [][SyncNext]_vars

TokenInit ==
    /\ now = 0
    /\ RegInit
    /\ \E initialSupply \in InitialSupplyInputs : constructor(initialSupply, Admin)
    /\ AuthInit

TokenNext == AddVesting \/ Claim \/ Mint \/ Burn \/ Pause \/ Unpause \/ TokenTick

TokenSpec == TokenInit /\ [][TokenNext]_vars

Roles == {DEFAULT_ADMIN_ROLE, PAUSER_ROLE, MINTER_ROLE}

GrantRole ==
    \E sender \in Addresses, role \in Roles, account \in Addresses :
        grantRole(sender, role, account)

RevokeRole ==
    \E sender \in Addresses, role \in Roles, account \in Addresses :
        revokeRole(sender, role, account)

\* The gated calls of the role runs: one unit is granted to, or minted for, a
\* fixed account, by every sender.
RoleAddVesting ==
    \E sender \in Addresses :
        /\ totalVested + 1 <= MaxTotalVested
        /\ addVesting(sender, Admin, 1)

RoleMint == \E sender \in Addresses : mint(sender, Admin, 1)

\* The token under every assignment of roles that grantRole and revokeRole
\* produce.
RoleNext == GrantRole \/ RevokeRole \/ RoleAddVesting \/ RoleMint \/ Pause \/ Unpause

\* The token as deployed, with no initial supply.
RoleInit == now = 0 /\ RegInit /\ constructor(0, Admin) /\ AuthInit

RoleSpec == RoleInit /\ [][RoleNext]_vars

\* The supplies a deployment is tried with: none, one unit, the cap, and one
\* unit more than the cap.
DeploySupplyInputs == {0, 1, MAX_SUPPLY, MAX_SUPPLY + 1}

Deploy ==
    \E initialSupply \in DeploySupplyInputs, admin \in Addresses \cup {NullAddress} :
        deploy(initialSupply, admin)

\* The deployment of the token, with every administrator and initial supply,
\* followed by mints, transfers and pausing of the deployed token.
DeployInit == now = 0 /\ RegInit /\ Undeployed /\ AuthInit

DeployNext == Deploy \/ (vestingEndTime # 0 /\ (Mint \/ Transfer \/ Pause \/ Unpause))

DeploySpec == DeployInit /\ [][DeployNext]_vars

\* Both contracts as deployed, each run with every one of its operations
\* while the other is as its deployment left it.
StoreNext ==
    \/ tokLast.op = "constructor" /\ now <= MaxTime /\ RegistryNext
    \/ regLast.op = "constructor" /\ (TokenNext \/ Transfer)

StoreSpec == RegistryInit /\ [][StoreNext]_vars

\* The role changes of the ledger runs: the pauser role of the account that
\* is not the administrator is granted and revoked, by every sender.
LedgerGrant ==
    \E sender \in Addresses, account \in Addresses \ {Admin} :
        grantRole(sender, PAUSER_ROLE, account)

LedgerRevoke ==
    \E sender \in Addresses, account \in Addresses \ {Admin} :
        revokeRole(sender, PAUSER_ROLE, account)

\* Every operation of the token: grants, claims, mints, burns, transfers,
\* pausing and role changes, as time passes.
LedgerNext == TokenNext \/ Transfer \/ LedgerGrant \/ LedgerRevoke

LedgerSpec == RoleInit /\ [][LedgerNext]_vars

\* ------------------------------------------------------------------ claims
\* The records stored so far.
Registered == Range(nodeIds)

\* C1: for every beneficiary claimedAmount <= vestedAmount in every reachable
\* state of the token, whatever grants, claims, mints, burns, pauses and
\* unpauses were issued at non-decreasing block timestamps.
C1_ClaimedWithinVested ==
    \A a \in Addresses : claimedAmount[a] <= vestedAmount[a]

\* A claim after the end of the window that followed an earlier partial claim
\* has just brought claimedAmount up to vestedAmount.
C1_Witness ==
    /\ tokLast.op = "claimVestedTokens"
    /\ tokLast.err = ""
    /\ now >= vestingEndTime
    /\ tokLast.amount < vestedAmount[tokLast.account]
    /\ claimedAmount[tokLast.account] = vestedAmount[tokLast.account]

\* C2: the circulating supply never exceeds MAX_SUPPLY.
C2_SupplyWithinCap == totalSupply <= MAX_SUPPLY

\* C3: totalVested plus the circulating supply is at most MAX_SUPPLY in every
\* reachable state.
C3_VestedPlusSupplyWithinCap == totalVested + totalSupply <= MAX_SUPPLY

\* C4: a grant by an administrator to a valid beneficiary of a positive amount
\* with totalSupply + totalVested + amount > MAX_SUPPLY fails with
\* ExceedsMaxSupply and leaves totalVested and vestedAmount unchanged.
C4_GrantBeyondCapRejected ==
    [][tokLast'.op = "addVesting" =>
       \A sender \in Addresses, beneficiary \in Addresses, amount \in AmountInputs :
          ( /\ addVesting(sender, beneficiary, amount)
            /\ hasRole(DEFAULT_ADMIN_ROLE, sender)
            /\ amount > 0
            /\ totalSupply + totalVested + amount > MAX_SUPPLY )
          => /\ ErrorKind(tokLast'.err) = "ExceedsMaxSupply"
             /\ UNCHANGED <<totalVested, vestedAmount>>]_vars

\* C5: once a stored record has isActive = FALSE, no updateNodeStatus on it and
\* no further deregisterNode of it succeeds, whoever sends it.
C5_InactiveIsFrozen ==
    [][\/ regLast'.err # ""
       \/ \A sender \in Addresses, nodeId \in Registered, u \in UpdateInputs :
             ~nodes[nodeId].isActive =>
                 /\ ~updateNodeStatus(sender, nodeId, u[1], u[2], u[3])
                 /\ ~deregisterNode(sender, nodeId)]_vars

\* The number of stored records of chain type c that are active.
ActiveOfChain(c) ==
    Cardinality({i \in Registered : nodes[i].chainType = c /\ nodes[i].isActive})

\* C6: for every chain type, nodeCountByChain equals the number of stored
\* records of that chain type with isActive = TRUE.
C6_ChainCountIsActiveCount ==
    \A c \in ChainType : nodeCountByChain[c] = ActiveOfChain(c)

\* C7: a successful registerNode raises getNodeCount() by exactly 1 and
\* nodeCountByChain of its chain type by exactly 1, and leaves the counter of
\* every other chain type unchanged.
C7_RegisterCounts ==
    [][regLast'.op = "registerNode" =>
       \A sender \in Addresses, r \in RegisterInputs :
          ( /\ registerNode(sender, r.name, r.chainType, r.endpointUrl, r.version,
                            r.region, r.provider)
            /\ regLast'.err = "" )
          => /\ Len(nodeIds') = getNodeCount + 1
             /\ nodeCountByChain'[r.chainType] = nodeCountByChain[r.chainType] + 1
             /\ \A c \in ChainType \ {r.chainType} :
                    nodeCountByChain'[c] = nodeCountByChain[c]]_vars

\* A second registration, of another chain type than the first, has succeeded.
C7_Witness ==
    /\ regLast.op = "registerNode"
    /\ regLast.err = ""
    /\ Len(nodeIds) = 2
    /\ nodes[nodeIds[1]].chainType # nodes[nodeIds[2]].chainType

\* C8: registerNode checks no role: sent by any account it fails only on a
\* duplicate identifier, and on success the record stored under the returned
\* identifier has owner = sender, status Starting, isActive TRUE, both block
\* counters 0, registeredAt = updatedAt = block.timestamp and the given name,
\* chain type, endpoint, version, region and provider.
C8_RegisterStoresRecord ==
    [][regLast'.op = "registerNode" =>
       \A sender \in Addresses, r \in RegisterInputs :
          registerNode(sender, r.name, r.chainType, r.endpointUrl, r.version,
                       r.region, r.provider)
          => /\ ErrorKind(regLast'.err) \in {"Ok", "DuplicateIdentifier"}
             /\ regLast'.err = "" =>
                  nodes'[regLast'.id] =
                      [id |-> regLast'.id, name |-> r.name, chainType |-> r.chainType,
                       endpointUrl |-> r.endpointUrl, status |-> "Starting",
                       version |-> r.version, currentBlock |-> 0, highestBlock |-> 0,
                       registeredAt |-> now, updatedAt |-> now, region |-> r.region,
                       provider |-> r.provider, owner |-> sender,
                       isActive |-> TRUE]]_vars

\* An account other than the first registrant has registered at a later time.
C8_Witness ==
    /\ regLast.op = "registerNode"
    /\ regLast.err = ""
    /\ now > 0
    /\ Len(nodeIds) = 2
    /\ nodes[regLast.id].owner # nodes[nodeIds[1]].owner
    /\ nodes[regLast.id].registeredAt = now

\* A stored record was registered by sender under name at block.timestamp = t.
RegisteredTriple(sender, name, t) ==
    \E i \in Registered :
        nodes[i].owner = sender /\ nodes[i].name = name /\ nodes[i].registeredAt = t

\* C9: with the digest injective in (sender, name, timestamp), registerNode
\* fails with DuplicateIdentifier, leaving the storage unchanged, exactly when
\* a record registered with the same (sender, name, timestamp) exists; a
\* registration that succeeds returns an identifier no stored record has (so
\* the same sender and name at another time get another identifier).
C9_DuplicateIffSameTriple ==
    [][regLast'.op = "registerNode" =>
       \A sender \in Addresses, r \in RegisterInputs :
          registerNode(sender, r.name, r.chainType, r.endpointUrl, r.version,
                       r.region, r.provider)
          => /\ ErrorKind(regLast'.err) = "DuplicateIdentifier"
                    <=> RegisteredTriple(sender, r.name, now)
             /\ RegisteredTriple(sender, r.name, now) => UNCHANGED regState
             /\ ~RegisteredTriple(sender, r.name, now) =>
                    /\ regLast'.err = ""
                    /\ regLast'.id \notin Registered
                    /\ nodeIds' = Append(nodeIds, regLast'.id)]_vars

\* The same sender has registered the same name at two different times, and its
\* repeat of the later registration in the same block was rejected.
C9_Witness ==
    /\ regLast.op = "registerNode"
    /\ regLast.err = "Node already exists"
    /\ \E i \in Registered :
          /\ i # regLast.id
          /\ nodes[i].owner = nodes[regLast.id].owner
          /\ nodes[i].name = nodes[regLast.id].name
          /\ nodes[i].registeredAt # nodes[regLast.id].registeredAt

\* C10: updateNodeStatus and deregisterNode on a stored record, sent by any
\* account other than its owner, fail with Unauthorized and leave the records,
\* the chain counters and the indices unchanged.
C10_NonOwnerRejected ==
    [][regLast'.op \in {"updateNodeStatus", "deregisterNode"} =>
       \A sender \in Addresses, nodeId \in Registered, u \in UpdateInputs :
          ( /\ sender # nodes[nodeId].owner
            /\ \/ updateNodeStatus(sender, nodeId, u[1], u[2], u[3])
               \/ deregisterNode(sender, nodeId) )
          => /\ ErrorKind(regLast'.err) = "Unauthorized"
             /\ UNCHANGED regState]_vars

\* A deregisterNode of an active record by an account that does not own it was
\* rejected.
C10_Witness ==
    /\ regLast.op = "deregisterNode"
    /\ regLast.err = "Not the node owner"
    /\ regLast.id \in Registered
    /\ regLast.sender # nodes[regLast.id].owner
    /\ nodes[regLast.id].isActive

\* C11: updateNodeStatus and deregisterNode naming an identifier that no stored
\* record has fail with NotFound, whoever sends them (the existence check comes
\* before the ownership check).
C11_UnknownIdNotFound ==
    ( /\ regLast.op \in {"updateNodeStatus", "deregisterNode"}
      /\ regLast.id \notin Registered )
    => ErrorKind(regLast.err) = "NotFound"

\* C12: getNodeDetails and getNodeSyncPercentage fail with NotFound for every
\* identifier that no successful registerNode returned, bytes32(0) included,
\* and getNodeDetails returns the stored record for every registered one.
C12_UnregisteredNotFound ==
    /\ \A nodeId \in NodeIdSpace \ Registered :
          /\ ErrorKind(getNodeDetails(nodeId).err) = "NotFound"
          /\ ErrorKind(getNodeSyncPercentage(nodeId).err) = "NotFound"
    /\ \A nodeId \in Registered :
          /\ getNodeDetails(nodeId).err = ""
          /\ \A f \in DOMAIN getNodeDetails(nodeId).ret :
                 getNodeDetails(nodeId).ret[f] = nodes[nodeId][f]

\* C13: for every stored node getNodeSyncPercentage returns 100 when
\* highestBlock = 0 or currentBlock > highestBlock, and otherwise
\* floor(currentBlock * 100 / highestBlock); the result is in 0..100 for every
\* pair of reported block counters.
C13_SyncPercentage ==
    \A nodeId \in Registered :
        LET node == nodes[nodeId]
            r == getNodeSyncPercentage(nodeId)
        IN  /\ r.err = ""
            /\ r.ret = IF node.highestBlock = 0 \/ node.currentBlock > node.highestBlock
                       THEN 100
                       ELSE (node.currentBlock * 100) \div node.highestBlock
            /\ r.ret \in 0 .. 100

\* The larger of two integers.
Max(a, b) == IF a >= b THEN a ELSE b

\* The times a token call can run at: from the start of the vesting window to
\* one tick past its end.
TokenTimes == vestingStartTime .. (vestingEndTime + 1)

\* C14: for every beneficiary and every time t, getClaimableAmount is 0 when
\* the vested total is 0 or the claimed total has reached it; it is vested
\* minus claimed when t >= vestingEndTime; and for t inside the window it is
\* max(0, floor(vested * (t - start) / (end - start)) - claimed).  At
\* t = vestingStartTime it is 0.
C14_ClaimableFormula ==
    \A beneficiary \in Addresses :
        LET V == vestedAmount[beneficiary]
            C == claimedAmount[beneficiary]
        IN  /\ \A t \in TokenTimes :
                  getClaimableAmount(beneficiary, t) =
                      IF V = 0 \/ C >= V THEN 0
                      ELSE IF t >= vestingEndTime THEN V - C
                      ELSE Max(0, ((V * (t - vestingStartTime))
                                      \div (vestingEndTime - vestingStartTime)) - C)
            /\ getClaimableAmount(beneficiary, vestingStartTime) = 0

\* Inside the window a beneficiary has a positive claimable amount that the
\* division has rounded down.
C14_Witness ==
    \E beneficiary \in Addresses :
        /\ vestingStartTime < now
        /\ now < vestingEndTime
        /\ getClaimableAmount(beneficiary, now) > 0
        /\ getClaimableAmount(beneficiary, now) * (vestingEndTime - vestingStartTime)
               < vestedAmount[beneficiary] * (now - vestingStartTime)

\* What a claimVestedTokens step of sender does when it agrees with
\* getClaimableAmount: it succeeds exactly when the claimable amount is
\* positive, then adds exactly that amount to the claimed total, the balance
\* of the sender and the supply; otherwise it fails with NothingToClaim and
\* changes nothing.
ClaimAgreesWithClaimable(sender) ==
    LET claimable == getClaimableAmount(sender, now)
    IN  /\ tokLast'.err = "" <=> claimable > 0
        /\ claimable > 0 =>
              /\ tokLast'.amount = claimable
              /\ claimedAmount' = [claimedAmount EXCEPT ![sender] = @ + claimable]
              /\ balances' = [balances EXCEPT ![sender] = @ + claimable]
              /\ totalSupply' = totalSupply + claimable
              /\ UNCHANGED <<roles, paused, vestingStartTime, vestingEndTime,
                             totalVested, vestedAmount>>
        /\ ~(claimable > 0) =>
              /\ ErrorKind(tokLast'.err) = "NothingToClaim"
              /\ UNCHANGED tokState

\* C15 (as stated): in every reachable state claimVestedTokens agrees with
\* getClaimableAmount at the same time: it succeeds exactly when the claimable
\* amount is positive, releasing exactly that amount, and otherwise fails with
\* NothingToClaim and changes nothing.
C15_ClaimAgreesAlways ==
    [][tokLast'.op = "claimVestedTokens" =>
       \A sender \in Addresses :
          claimVestedTokens(sender) => ClaimAgreesWithClaimable(sender)]_vars

\* C15 (amended): while the token is not paused claimVestedTokens agrees with
\* getClaimableAmount at the same time as above; while it is paused every
\* claim fails with "Pausable: paused" and changes nothing.
C15_ClaimAgreesUnlessPaused ==
    [][tokLast'.op = "claimVestedTokens" =>
       \A sender \in Addresses :
          claimVestedTokens(sender) =>
              IF paused
              THEN tokLast'.err = "Pausable: paused" /\ UNCHANGED tokState
              ELSE ClaimAgreesWithClaimable(sender)]_vars

\* A first claim inside the window has released a part of the grant.
C15_Witness ==
    /\ tokLast.op = "claimVestedTokens"
    /\ tokLast.err = ""
    /\ ~paused
    /\ now < vestingEndTime
    /\ claimedAmount[tokLast.account] = tokLast.amount
    /\ tokLast.amount < vestedAmount[tokLast.account]

\* C16: right after a successful claimVestedTokens of a beneficiary at time t
\* (no grant in between) getClaimableAmount of that beneficiary at t is 0 and
\* a second claim at t fails with NothingToClaim; a claim that succeeds at or
\* after vestingEndTime releases exactly vested minus claimed.
C16_ClaimExhaustsClaimable ==
    [][tokLast'.op = "claimVestedTokens" =>
       \A sender \in Addresses :
          ( claimVestedTokens(sender) /\ tokLast'.err = "" )
          => /\ (getClaimableAmount(sender, now) = 0)'
             /\ (ErrorKind(claimRevertReason(sender)) = "NothingToClaim")'
             /\ now >= vestingEndTime =>
                   /\ tokLast'.amount = vestedAmount[sender] - claimedAmount[sender]
                   /\ claimedAmount'[sender] = vestedAmount[sender]]_vars

\* A beneficiary that claimed inside the window has claimed the rest after the
\* window ended, while the other beneficiary still has a grant to claim.
C16_Witness ==
    /\ tokLast.op = "claimVestedTokens"
    /\ tokLast.err = ""
    /\ now >= vestingEndTime
    /\ 0 < tokLast.amount
    /\ tokLast.amount < claimedAmount[tokLast.account]
    /\ \E other \in Addresses \ {tokLast.account} :
          claimedAmount[other] < vestedAmount[other]

\* The part of the grant of a beneficiary that the schedule has released by
\* now, computed once from the vested total alone.
ReleasedBySchedule(beneficiary) ==
    IF now >= vestingEndTime THEN vestedAmount[beneficiary]
    ELSE (vestedAmount[beneficiary] * (now - vestingStartTime))
             \div (vestingEndTime - vestingStartTime)

\* C17: claims of one beneficiary at one time are serialized, each a whole
\* transaction, and a later one sees the claimed total the earlier one wrote:
\* every claim releases exactly what it adds to the claimed total; a claim
\* made when the claimed total already equals what the schedule has released
\* releases nothing; otherwise (unpaused) it brings the claimed total to that
\* amount, so a pair releases together what is claimable computed once; and
\* the claimed total never passes the vested total.
C17_ClaimsLinearized ==
    [][tokLast'.op = "claimVestedTokens" =>
       \A sender \in Addresses :
          claimVestedTokens(sender) =>
             LET released == balances'[sender] - balances[sender]
                 once == ReleasedBySchedule(sender)
             IN  /\ released = claimedAmount'[sender] - claimedAmount[sender]
                 /\ totalSupply' - totalSupply = released
                 /\ claimedAmount'[sender] <= once
                 /\ once <= vestedAmount[sender]
                 /\ claimedAmount[sender] = once =>
                       tokLast'.err # "" /\ released = 0
                 /\ (~paused /\ claimedAmount[sender] < once) =>
                       tokLast'.err = "" /\ claimedAmount'[sender] = once]_vars

\* The second of two claims of a beneficiary inside the window was rejected:
\* the first had released everything the schedule allows by now.
C17_Witness ==
    /\ tokLast.op = "claimVestedTokens"
    /\ tokLast.err = "No tokens to claim"
    /\ now < vestingEndTime
    /\ claimedAmount[tokLast.sender] > 0
    /\ claimedAmount[tokLast.sender] = ReleasedBySchedule(tokLast.sender)
    /\ balances[tokLast.sender] >= claimedAmount[tokLast.sender]

\* The steps of sender that are a call of a function gated by role.
GatedCall(sender, role) ==
    CASE role = DEFAULT_ADMIN_ROLE ->
            \E beneficiary \in Addresses \cup {NullAddress}, amount \in AmountInputs :
                addVesting(sender, beneficiary, amount)
      [] role = MINTER_ROLE ->
            \E to \in Addresses \cup {NullAddress}, amount \in AmountInputs :
                mint(sender, to, amount)
      [] role = PAUSER_ROLE -> pause(sender) \/ unpause(sender)

\* C18: addVesting succeeds only for a sender holding DEFAULT_ADMIN_ROLE, mint
\* only for one holding MINTER_ROLE, pause and unpause only for one holding
\* PAUSER_ROLE; a sender that lacks the role of the call fails with
\* Unauthorized, and no vesting, supply, balance or pause state changes.
C18_CapabilityGating ==
    [][tokLast'.op \in {"addVesting", "mint", "pause", "unpause"} =>
       \A sender \in Addresses, role \in Roles :
          GatedCall(sender, role) =>
              /\ tokLast'.err = "" => <<role, sender>> \in roles
              /\ <<role, sender>> \notin roles =>
                    /\ ErrorKind(tokLast'.err) = "Unauthorized"
                    /\ UNCHANGED tokState]_vars

\* A mint was refused to a sender that holds the administrator and the pauser
\* role but not the minter role.
C18_Witness ==
    /\ tokLast.op = "mint"
    /\ ErrorKind(tokLast.err) = "Unauthorized"
    /\ <<DEFAULT_ADMIN_ROLE, tokLast.sender>> \in roles
    /\ <<PAUSER_ROLE, tokLast.sender>> \in roles
    /\ <<MINTER_ROLE, tokLast.sender>> \notin roles

\* C19: addVesting sent by an administrator fails with InvalidBeneficiary when
\* the beneficiary is address(0), and with InvalidAmount when the beneficiary
\* is valid and the amount is 0; both leave every vested total, every claimed
\* total and totalVested unchanged.
C19_MalformedGrantRejected ==
    [][tokLast'.op = "addVesting" =>
       \A sender \in Addresses, beneficiary \in Addresses \cup {NullAddress},
          amount \in AmountInputs :
          ( addVesting(sender, beneficiary, amount)
            /\ <<DEFAULT_ADMIN_ROLE, sender>> \in roles )
          => /\ beneficiary = NullAddress =>
                   /\ ErrorKind(tokLast'.err) = "InvalidBeneficiary"
                   /\ UNCHANGED <<vestedAmount, claimedAmount, totalVested>>
             /\ (beneficiary # NullAddress /\ amount = 0) =>
                   /\ ErrorKind(tokLast'.err) = "InvalidAmount"
                   /\ UNCHANGED <<vestedAmount, claimedAmount, totalVested>>]_vars

\* A grant of amount 0 was rejected after grants had been made and claimed.
C19_Witness ==
    /\ tokLast.op = "addVesting"
    /\ tokLast.err = "Amount must be greater than 0"
    /\ <<DEFAULT_ADMIN_ROLE, tokLast.sender>> \in roles
    /\ totalVested > 0
    /\ \E a \in Addresses : claimedAmount[a] > 0

\* C20: a successful addVesting(beneficiary, amount) adds exactly amount to
\* the vested total of the beneficiary and to totalVested, and leaves the
\* claimed totals, the vested total of every other beneficiary, all balances
\* and the supply unchanged.
C20_GrantAccumulates ==
    [][tokLast'.op = "addVesting" =>
       \A sender \in Addresses, beneficiary \in Addresses \cup {NullAddress},
          amount \in AmountInputs :
          ( addVesting(sender, beneficiary, amount) /\ tokLast'.err = "" )
          => /\ vestedAmount'[beneficiary] = vestedAmount[beneficiary] + amount
             /\ \A other \in Addresses \ {beneficiary} :
                    vestedAmount'[other] = vestedAmount[other]
             /\ totalVested' = totalVested + amount
             /\ UNCHANGED <<claimedAmount, balances, totalSupply>>]_vars

\* A second grant to a beneficiary that has already claimed has succeeded.
C20_Witness ==
    /\ tokLast.op = "addVesting"
    /\ tokLast.err = ""
    /\ vestedAmount[tokLast.account] > tokLast.amount
    /\ claimedAmount[tokLast.account] > 0

\* C21: no step (addVesting, claimVestedTokens, mint, burn, transfer, pause,
\* unpause, grantRole, revokeRole, the passing of time) lowers the vested
\* total or the claimed total of any beneficiary.
C21_VestedAndClaimedMonotone ==
    [][\A beneficiary \in Addresses :
          /\ vestedAmount'[beneficiary] >= vestedAmount[beneficiary]
          /\ claimedAmount'[beneficiary] >= claimedAmount[beneficiary]]_vars

\* A beneficiary with a second grant and a part of it claimed has sent a
\* transfer while the other account held the pauser role.
C21_Witness ==
    /\ tokLast.op = "transfer"
    /\ tokLast.err = ""
    /\ tokLast.amount > 0
    /\ claimedAmount[tokLast.sender] > 0
    /\ vestedAmount[tokLast.sender] > claimedAmount[tokLast.sender] + 1
    /\ \E account \in Addresses \ {Admin} : <<PAUSER_ROLE, account>> \in roles

\* C22: grantRole and revokeRole succeed only when the sender holds
\* DEFAULT_ADMIN_ROLE; sent by anyone else they fail with Unauthorized and the
\* role set (with the rest of the token storage) is unchanged.
C22_RoleChangesNeedAdmin ==
    [][tokLast'.op \in {"grantRole", "revokeRole"} =>
       \A sender \in Addresses, role \in Roles, account \in Addresses :
          ( grantRole(sender, role, account) \/ revokeRole(sender, role, account) )
          => /\ tokLast'.err = "" => <<DEFAULT_ADMIN_ROLE, sender>> \in roles
             /\ <<DEFAULT_ADMIN_ROLE, sender>> \notin roles =>
                   /\ ErrorKind(tokLast'.err) = "Unauthorized"
                   /\ UNCHANGED tokState]_vars

\* A revokeRole was refused to a sender that holds the minter and the pauser
\* role but not the administrator role, while an administrator exists.
C22_Witness ==
    /\ tokLast.op = "revokeRole"
    /\ ErrorKind(tokLast.err) = "Unauthorized"
    /\ <<MINTER_ROLE, tokLast.sender>> \in roles
    /\ <<PAUSER_ROLE, tokLast.sender>> \in roles
    /\ <<DEFAULT_ADMIN_ROLE, tokLast.sender>> \notin roles
    /\ \E a \in Addresses : <<DEFAULT_ADMIN_ROLE, a>> \in roles

\* C23: role changes have set semantics.  Sent by an administrator, grantRole
\* of a role the account already holds and revokeRole of one it does not hold
\* succeed and leave the role set as it was; after a grantRole hasRole is
\* true and after a revokeRole it is false, and no other (role, account) pair
\* changes.
C23_RoleChangesIdempotent ==
    [][tokLast'.op \in {"grantRole", "revokeRole"} =>
       \A sender \in Addresses, role \in Roles, account \in Addresses :
          <<DEFAULT_ADMIN_ROLE, sender>> \in roles =>
             /\ grantRole(sender, role, account) =>
                   /\ tokLast'.err = ""
                   /\ hasRole(role, account)'
                   /\ roles' \ { <<role, account>> } = roles \ { <<role, account>> }
                   /\ <<role, account>> \in roles => roles' = roles
             /\ revokeRole(sender, role, account) =>
                   /\ tokLast'.err = ""
                   /\ ~hasRole(role, account)'
                   /\ roles' \ { <<role, account>> } = roles \ { <<role, account>> }
                   /\ <<role, account>> \notin roles => roles' = roles]_vars

\* An administrator that holds no other role has granted itself a role and
\* still holds the administrator role alone: the grant was of the role it
\* already held.
C23_Witness ==
    /\ tokLast.op = "grantRole"
    /\ tokLast.err = ""
    /\ tokLast.account = tokLast.sender
    /\ {r \in Roles : <<r, tokLast.sender>> \in roles} = {DEFAULT_ADMIN_ROLE}

\* The accounts that hold DEFAULT_ADMIN_ROLE.
Administrators == {a \in Addresses : <<DEFAULT_ADMIN_ROLE, a>> \in roles}

\* C24: nothing protects the last administrator.  The only holder of
\* DEFAULT_ADMIN_ROLE revoking that role from itself succeeds and leaves no
\* holder; from then on there is never a holder again, and every grantRole,
\* revokeRole and addVesting, whoever sends it, fails.
C24_LastAdminCanBeRevoked ==
    [][/\ \A sender \in Addresses :
             ( Administrators = {sender}
               /\ revokeRole(sender, DEFAULT_ADMIN_ROLE, sender) )
             => tokLast'.err = "" /\ Administrators' = {}
       /\ Administrators = {} =>
             /\ Administrators' = {}
             /\ \A sender \in Addresses, role \in Roles, account \in Addresses :
                    ( \/ grantRole(sender, role, account)
                      \/ revokeRole(sender, role, account)
                      \/ \E amount \in AmountInputs :
                            addVesting(sender, account, amount) )
                    => ErrorKind(tokLast'.err) = "Unauthorized"]_vars

\* With no administrator left, an addVesting of the account the token was
\* deployed with has been refused.
C24_Witness ==
    /\ Administrators = {}
    /\ tokLast.op = "addVesting"
    /\ tokLast.sender = Admin
    /\ ErrorKind(tokLast.err) = "Unauthorized"
    /\ totalVested > 0

\* C25: a deployment with initial supply S > MAX_SUPPLY fails and leaves
\* nothing.  One with S <= MAX_SUPPLY and an administrator A other than
\* address(0) succeeds, and right after it A holds DEFAULT_ADMIN_ROLE,
\* MINTER_ROLE and PAUSER_ROLE, no other account holds any role, the supply
\* is S, all of it in the balance of A, and totalVested is 0.
C25_Initialization ==
    [][tokLast'.op = "constructor" =>
       \A initialSupply \in DeploySupplyInputs, admin \in Addresses \cup {NullAddress} :
          deploy(initialSupply, admin) =>
             /\ initialSupply > MAX_SUPPLY =>
                   tokLast'.err # "" /\ UNCHANGED tokState
             /\ (initialSupply <= MAX_SUPPLY /\ admin # NullAddress) =>
                   tokLast'.err = ""
             /\ tokLast'.err = "" =>
                   /\ roles' = {DEFAULT_ADMIN_ROLE, MINTER_ROLE, PAUSER_ROLE} \X {admin}
                   /\ totalSupply' = initialSupply
                   /\ balances'[admin] = initialSupply
                   /\ \A a \in Addresses \ {admin} : balances'[a] = 0
                   /\ totalVested' = 0]_vars

\* The token has just been deployed with the whole cap as initial supply and
\* the second account as administrator.
C25_Witness ==
    /\ tokLast.op = "constructor"
    /\ tokLast.err = ""
    /\ tokLast.account # Admin
    /\ tokLast.amount = MAX_SUPPLY
    /\ totalSupply = MAX_SUPPLY
    /\ balances[tokLast.account] = MAX_SUPPLY

\* C26: isActive = FALSE is terminal: a stored record whose isActive is FALSE
\* has isActive FALSE after every step; no registerNode, updateNodeStatus or
\* deregisterNode sets it back to TRUE.
C26_InactiveIsTerminal ==
    [][\A nodeId \in Registered :
          ~nodes[nodeId].isActive => ~nodes'[nodeId].isActive]_vars

\* A deregistered record has been updated by its owner and is still inactive.
C26_Witness ==
    /\ regLast.op = "updateNodeStatus"
    /\ regLast.err = ""
    /\ regLast.id \in Registered
    /\ ~nodes[regLast.id].isActive
    /\ nodes[regLast.id].status # "Starting"

\* C27: a successful deregisterNode of an active record was sent by its owner;
\* it sets isActive to FALSE, lowers the counter of the chain type of the
\* record by exactly 1, and leaves getNodeCount(), the owner index, every
\* other field of the record, every other record and every other counter
\* unchanged; getNodeDetails still returns the record.
C27_DeregisterIsSoftDelete ==
    [][regLast'.op = "deregisterNode" =>
       \A sender \in Addresses, nodeId \in Registered :
          ( /\ deregisterNode(sender, nodeId)
            /\ regLast'.err = ""
            /\ nodes[nodeId].isActive )
          => /\ sender = nodes[nodeId].owner
             /\ nodes' = [nodes EXCEPT ![nodeId].isActive = FALSE]
             /\ nodeCountByChain' =
                    [nodeCountByChain EXCEPT ![nodes[nodeId].chainType] = @ - 1]
             /\ Len(nodeIds') = getNodeCount
             /\ UNCHANGED <<nodeIds, ownerNodes>>
             /\ getNodeDetails(nodeId)'.err = ""
             /\ getNodeDetails(nodeId)'.ret.name = nodes[nodeId].name
             /\ ~getNodeDetails(nodeId)'.ret.isActive]_vars

\* An owner of two records has deregistered the one whose sync progress it had
\* reported; the other is still active.
C27_Witness ==
    /\ regLast.op = "deregisterNode"
    /\ regLast.err = ""
    /\ ~nodes[regLast.id].isActive
    /\ nodes[regLast.id].currentBlock > 0
    /\ \E other \in Registered \ {regLast.id} :
          /\ nodes[other].owner = nodes[regLast.id].owner
          /\ nodes[other].isActive

\* C28: an operation of either contract that returns an error leaves the
\* whole state as it was before the call: the records, the identifier list,
\* the owner index and the chain counters, and the role set, the pause flag,
\* the supply, the balances, the vested and claimed totals and totalVested.
C28_ErrorsChangeNothing ==
    [][/\ (regLast' # regLast /\ regLast'.err # "") =>
             UNCHANGED <<regState, tokState>>
       /\ (tokLast' # tokLast /\ tokLast'.err # "") =>
             UNCHANGED <<regState, tokState>>]_vars

\* The deregisterNode of an active record has failed on the decrement of a
\* counter that was already 0, and the record is still active.
C28_Witness ==
    /\ regLast.op = "deregisterNode"
    /\ regLast.err = "Panic"
    /\ regLast.id \in Registered
    /\ regLast.sender = nodes[regLast.id].owner
    /\ nodes[regLast.id].isActive

\* What a successful mint(to, amount) changes: the supply and the balance of
\* the recipient grow by exactly amount, nothing else changes.
MintEffect(to, amount) ==
    /\ tokLast'.err = ""
    /\ totalSupply' = totalSupply + amount
    /\ balances' = [balances EXCEPT ![to] = @ + amount]

TokenMovingOps == {"transfer", "mint", "burn", "claimVestedTokens"}

\* C30: while the token is paused no transfer, mint, burn or claim succeeds,
\* and no balance, the supply and no claimed total changes.  An unpause sent
\* by a pauser succeeds, and with the token not paused none of these calls is
\* stopped by the pause: a transfer or burn within the balance of the sender
\* succeeds (to a recipient other than address(0)), and no mint or claim
\* fails with the pause error.
C30_PauseStopsTokenMoves ==
    [][/\ paused =>
             /\ UNCHANGED <<balances, totalSupply, claimedAmount>>
             /\ (tokLast' # tokLast /\ tokLast'.op \in TokenMovingOps) =>
                    tokLast'.err # ""
             /\ \A sender \in Addresses :
                    ( tokLast'.op = "unpause" /\ unpause(sender)
                      /\ <<PAUSER_ROLE, sender>> \in roles )
                    => /\ tokLast'.err = ""
                       /\ ~paused'
                       /\ \A b \in Addresses :
                              claimRevertReason(b)' # "Pausable: paused"
       /\ ~paused =>
             /\ (tokLast' # tokLast /\ tokLast'.op \in TokenMovingOps) =>
                    tokLast'.err # "Pausable: paused"
             /\ tokLast'.op \in {"transfer", "burn"} =>
                  \A sender \in Addresses, to \in Addresses, amount \in AmountInputs :
                     amount <= balances[sender] =>
                        /\ transfer(sender, to, amount) => tokLast'.err = ""
                        /\ burn(sender, amount) => tokLast'.err = ""]_vars

\* A claim of a beneficiary with a positive claimable amount has been stopped
\* by the pause, which a pauser other than the administrator can lift.
C30_Witness ==
    /\ paused
    /\ tokLast.op = "claimVestedTokens"
    /\ tokLast.err = "Pausable: paused"
    /\ getClaimableAmount(tokLast.sender, now) > 0
    /\ \E account \in Addresses \ {Admin} : <<PAUSER_ROLE, account>> \in roles

\* C31: a successful updateNodeStatus(nodeId, status, currentBlock,
\* highestBlock) at time now leaves the record with exactly the supplied
\* currentBlock and highestBlock (lower values than the stored ones included),
\* updatedAt = now and status = status; it emits NodeStatusChanged exactly when
\* status differs from the stored status, and NodeUpdated on every call.
C31_UpdateWritesSupplied ==
    [][regLast'.op = "updateNodeStatus" =>
       \A sender \in Addresses, nodeId \in Registered, u \in UpdateInputs :
          ( /\ updateNodeStatus(sender, nodeId, u[1], u[2], u[3])
            /\ regLast'.err = "" )
          => /\ nodes'[nodeId].status = u[1]
             /\ nodes'[nodeId].currentBlock = u[2]
             /\ nodes'[nodeId].highestBlock = u[3]
             /\ nodes'[nodeId].updatedAt = now
             /\ regLast'.events =
                    IF nodes[nodeId].status # u[1]
                    THEN <<"NodeStatusChanged", "NodeUpdated">>
                    ELSE <<"NodeUpdated">>]_vars

\* A record registered at time 0 was updated at a later time with the status
\* it already had and a current block below the highest block.
C31_Witness ==
    /\ regLast.op = "updateNodeStatus"
    /\ regLast.err = ""
    /\ regLast.events = <<"NodeUpdated">>
    /\ nodes[regLast.id].updatedAt > nodes[regLast.id].registeredAt
    /\ nodes[regLast.id].currentBlock < nodes[regLast.id].highestBlock

\* The fields of a record that are written at registration only.
RegistrationFields ==
    {"id", "owner", "name", "chainType", "endpointUrl", "version", "region",
     "provider", "registeredAt"}

\* The fields of a record that updateNodeStatus writes.
StatusFields == {"status", "currentBlock", "highestBlock", "updatedAt"}

\* C32: id, owner, name, chainType, endpointUrl, version, region, provider and
\* registeredAt of a stored record are the same after every step;
\* updateNodeStatus changes nothing but status, currentBlock, highestBlock and
\* updatedAt of the record it names, and neither updateNodeStatus nor
\* deregisterNode changes another record, the owner index or getNodeCount().
C32_RegistrationFieldsFrozen ==
    [][/\ nodes' # nodes =>
             \A nodeId \in Registered, f \in RegistrationFields :
                nodes'[nodeId][f] = nodes[nodeId][f]
       /\ regLast'.op = "updateNodeStatus" =>
             /\ \A nodeId \in NodeIdSpace, f \in DOMAIN EmptyNode :
                   nodes'[nodeId][f] # nodes[nodeId][f]
                      => nodeId = regLast'.id /\ f \in StatusFields
             /\ UNCHANGED ownerNodes
             /\ getNodeCount' = getNodeCount
       /\ regLast'.op = "deregisterNode" =>
             /\ \A nodeId \in NodeIdSpace \ {regLast'.id} :
                   nodes'[nodeId] = nodes[nodeId]
             /\ UNCHANGED ownerNodes
             /\ getNodeCount' = getNodeCount]_vars

\* A record that was updated after the time of its registration has been
\* deregistered while another record is stored.
C32_Witness ==
    /\ regLast.op = "deregisterNode"
    /\ regLast.err = ""
    /\ nodes[regLast.id].updatedAt > nodes[regLast.id].registeredAt
    /\ nodes[regLast.id].currentBlock > 0
    /\ Registered \ {regLast.id} # {}

\* C33: in every reachable state getNodesByOwner(o) is the sequence of the
\* identifiers of the stored records whose owner is o, in the order of their
\* registration, each identifier once; the records that were deregistered are
\* still listed.
C33_OwnerListIsOwnedInOrder ==
    \A o \in Addresses :
        LET OwnedBy(nodeId) == nodes[nodeId].owner = o
            list == getNodesByOwner(o)
        IN  /\ list = SelectSeq(nodeIds, OwnedBy)
            /\ \A i, j \in 1 .. Len(list) : list[i] = list[j] => i = j
            /\ \A nodeId \in NodeIdSpace :
                  (nodes[nodeId].owner = o) <=> (nodeId \in Range(list))

\* One owner holds two records and has deregistered the one registered
\* first; the other owner has none.
C33_Witness ==
    \E o \in Addresses :
        /\ Len(getNodesByOwner(o)) = 2
        /\ ~nodes[getNodesByOwner(o)[1]].isActive
        /\ nodes[getNodesByOwner(o)[2]].isActive
        /\ nodeIds = getNodesByOwner(o)

\* The stored records: the identifiers whose record has an owner.
StoredRecords == {nodeId \in NodeIdSpace : nodes[nodeId].owner # NullAddress}

RECURSIVE SumOfOwnerLists(_)
SumOfOwnerLists(owners) ==
    IF owners = {} THEN 0
    ELSE LET o == CHOOSE a \in owners : TRUE
         IN  Len(getNodesByOwner(o)) + SumOfOwnerLists(owners \ {o})

\* getNodeCount() is the number of stored records, active or not, and the
\* sum of the lengths of the owners' lists.
CountAgrees ==
    /\ getNodeCount = Cardinality(StoredRecords)
    /\ getNodeCount = SumOfOwnerLists(Addresses)

\* C34: getNodeCount() is the number of successful registrations so far: it
\* is the number of stored records (active or not) and the sum over the owners
\* of the length of getNodesByOwner(owner) in every state, it grows by exactly
\* 1 in a successful registerNode step and is unchanged by every other step,
\* so it never decreases.
C34_CountIsRegistrations ==
    [][/\ CountAgrees
       /\ CountAgrees'
       /\ getNodeCount' >= getNodeCount
       /\ getNodeCount' - getNodeCount =
             IF regLast' # regLast /\ regLast'.op = "registerNode"
                                    /\ regLast'.err = ""
             THEN 1 ELSE 0]_vars

\* Two records are stored, one of each owner; the last step deregistered
\* one of them.
C34_Witness ==
    /\ getNodeCount = 2
    /\ \A o \in Addresses : Len(getNodesByOwner(o)) = 1
    /\ regLast.op = "deregisterNode"
    /\ regLast.err = ""
    /\ ~nodes[regLast.id].isActive

\* C35: the claimed total after a successful claimVestedTokens depends on the
\* vested total and the time of the claim only: it is
\* floor(vestedAmount * (now - vestingStartTime) / (vestingEndTime -
\* vestingStartTime)) when now < vestingEndTime and vestedAmount when
\* now >= vestingEndTime, whatever was claimed before; the claim mints the
\* difference to the claimed total before it.
C35_ClaimsPathIndependent ==
    [][tokLast'.op = "claimVestedTokens" =>
       \A sender \in Addresses :
          ( /\ claimVestedTokens(sender)
            /\ tokLast'.err = "" )
          => LET V == vestedAmount'[sender]
                 t == now'
             IN  /\ V = vestedAmount[sender]
                 /\ t < vestingEndTime =>
                       claimedAmount'[sender] =
                          (V * (t - vestingStartTime))
                             \div (vestingEndTime - vestingStartTime)
                 /\ t >= vestingEndTime => claimedAmount'[sender] = V
                 /\ balances'[sender] - balances[sender] =
                       claimedAmount'[sender] - claimedAmount[sender]]_vars

\* A beneficiary with a vested total of MaxTotalVested who had claimed 1 in an
\* earlier claim has claimed the rest once the window had ended.
C35_Witness ==
    /\ tokLast.op = "claimVestedTokens"
    /\ tokLast.err = ""
    /\ now >= vestingEndTime
    /\ vestedAmount[tokLast.sender] = MaxTotalVested
    /\ claimedAmount[tokLast.sender] = MaxTotalVested
    /\ tokLast.amount = MaxTotalVested - 1

C37_SyncNeverOverflows ==
    \A nodeId \in Registered :
        nodes[nodeId].currentBlock <= nodes[nodeId].highestBlock
           => /\ nodes[nodeId].currentBlock * 100 <= UintMax
              /\ getNodeSyncPercentage(nodeId).err = ""

\* The request of the last outcome carried "Bearer <token>" with a token
\* signed under the secret whose exp was later than the time of the request
\* and whose user_id parses as a UUID.
AuthRequestIsValid ==
    LET authHeader == GetHeader(authLast.request, "Authorization")
    IN  /\ Len(authHeader) = 2
        /\ authHeader[1].text = "Bearer"
        /\ authHeader[2].jwt.wellFormed
        /\ authHeader[2].jwt.alg = "HS256"
        /\ authHeader[2].jwt.key = JWTSecret
        /\ authHeader[2].jwt.claims.ExpiresAt # Nil
        /\ authHeader[2].jwt.claims.ExpiresAt[1] > authLast.at
        /\ uuidParse(authHeader[2].jwt.claims.UserID).err = ""

\* The request of the last outcome carried "Bearer <token>" with a token
\* that has no exp claim.
AuthRequestWithoutExp ==
    LET authHeader == GetHeader(authLast.request, "Authorization")
    IN  /\ Len(authHeader) = 2
        /\ authHeader[1].text = "Bearer"
        /\ authHeader[2].jwt.wellFormed
        /\ authHeader[2].jwt.claims.ExpiresAt = Nil

\* The two outcomes: the request was aborted with 401 and the next handler
\* not invoked, or user_id, username and role were set and it was invoked.
AuthRejected ==
    /\ authLast.status = StatusUnauthorized
    /\ ~authLast.next
    /\ authLast.keys = {}

AuthPassed ==
    /\ authLast.next
    /\ authLast.status = 0
    /\ {kv[1] : kv \in authLast.keys} = {"user_id", "username", "role"}

\* C38: every request through Auth ends in one of two outcomes: aborted with
\* 401 without the next handler, or user_id, username and role stored and the
\* next handler invoked; the second only for a request with "Bearer <token>",
\* a valid signature, an exp in the future and a user_id that parses as a
\* UUID; a token without exp is rejected with 401.
C38_AuthTwoOutcomes ==
    authLast.op = "Auth" =>
        /\ AuthRejected \/ AuthPassed
        /\ AuthPassed => AuthRequestIsValid
        /\ AuthRequestWithoutExp => AuthRejected

=============================================================================
